---- MODULE Spec2Model ----
(***************************************************************************)
(* k-fold cross-validation error estimation of a reduced order model, as   *)
(* the EZyRB tutorial notebook invokes and describes it:                   *)
(*     db = Database(data.params, data.snapshots['vx'])                    *)
(*     rom = ROM(db, POD(), RBF()); rom.fit()                              *)
(*     errors = rom.kfold_cv_error(n_splits = 5); errors.mean()            *)
(* The notebook documents kfold_cv_error in seven steps (split, reduce on  *)
(* k-1 groups, predict the held-out group, per-snapshot error, average,    *)
(* repeat, k errors).  The fold-size policy and the norm are not in the    *)
(* notebook; they are taken from the written specification.  The           *)
(* reduction and approximation methods are library code: what they predict *)
(* for a held-out parameter is a free choice among the snapshot values.    *)
(***************************************************************************)
EXTENDS Integers, Sequences, FiniteSets

\* Largest database of the cross-validation runs.
MaxN == 5
\* Largest database of the runs of the fold generator alone.
MaxSplitN == 11
\* Snapshots are scalars in 0..MaxVal.
MaxVal == 1
\* A random sampling of a location has one of MaxDraw outcomes.
MaxDraw == 2

VARIABLES
    N,          \* number of samples of the database
    db,         \* db[i]: snapshot of sample i (its parameter is i)
    n_splits,   \* the fold count passed to kfold_cv_error
    pc,         \* position in the notebook / in kfold_cv_error
    rom_fit,    \* indices the notebook's own rom was fitted on
    fold,       \* number of the fold being processed, 1..n_splits
    splits,     \* the (train, test) index pairs generated so far
    fitted_on,  \* indices the current fold's pipeline was fitted on
    predicted,  \* predicted[i]: predicted snapshot for held-out sample i
    sample_err, \* sample_err[i]: error of held-out sample i
    errors,     \* the fold-average errors, in fold order
    mean,       \* errors.mean(), <<0, 0>> until computed
    converged,  \* whether the current fold's training converged
    calls,      \* how many times each step of the loop has run
    \* the comparison cell of the same notebook
    cmp_pc,     \* position in the comparison cell
    header,     \* the header line: the approximation names, in order
    red_i,      \* index of the reduction of the outer loop
    app_j,      \* index of the approximation of the inner loop
    rom,        \* the ROM of the current pair: <<>> or <<[red, app, fitted]>>
    row,        \* the line being built for the current reduction
    printed,    \* the lines printed so far
    log,        \* the fit and kfold_cv_error calls made so far, in order
    \* the PINN notebook
    pinn_pc,        \* position in the PINN notebook
    colab_import,   \* outcome of `import google.colab`
    IN_COLAB,       \* "unset", "True" or "False"
    pip_ran,        \* whether the cell ran pip install
    pina_installed, \* whether the pina package can be imported
    call_i,         \* number of discretise_domain calls made
    input_pts,      \* problem.input_pts: <<>> (None) or <<dict>>
    train_pts       \* the input_pts the training started from

cv_vars == <<N, db, n_splits, pc, rom_fit, fold, splits, fitted_on,
             predicted, sample_err, errors, mean, converged, calls>>

cmp_vars == <<cmp_pc, header, red_i, app_j, rom, row, printed, log>>

pinn_vars == <<pinn_pc, colab_import, IN_COLAB, pip_ran, pina_installed,
               call_i, input_pts, train_pts>>

vars == <<cv_vars, cmp_vars, pinn_vars>>

----------------------------------------------------------------------------
\* Exact rationals <<numerator, denominator>>, denominator > 0, in lowest
\* terms: the floating-point error values without their rounding.

RECURSIVE GCD(_, _)
GCD(a, b) ==
    IF b = 0 THEN a ELSE CHOOSE g \in {GCD(b, m) : m \in {a % b}} : TRUE

Abs(x) == IF x < 0 THEN -x ELSE x

Rat(n, d) ==
    LET g == GCD(Abs(n), d)
    IN  <<n \div g, d \div g>>

RatAdd(a, b) == Rat(a[1] * b[2] + b[1] * a[2], a[2] * b[2])

RECURSIVE RatSum(_)
RatSum(s) ==
    IF s = <<>> THEN <<0, 1>>
    ELSE CHOOSE t \in {RatAdd(Head(s), r) : r \in {RatSum(Tail(s))}} : TRUE

RECURSIVE SumOver(_, _)
SumOver(S, f) ==
    IF S = {} THEN 0
    ELSE LET x == CHOOSE y \in S : TRUE
         IN  f[x] + SumOver(S \ {x}, f)

----------------------------------------------------------------------------
\* The fold generator.

\* Size of fold j of n samples in k folds: the remainder n mod k goes to the
\* first folds, one extra sample each.
FoldSizeLast(n, k, j) ==
    (n \div k) + (IF j > k - (n % k) THEN 1 ELSE 0)

FoldSizeCeil(n, k, j) ==
    LET chunk == (n + k - 1) \div k
        rest  == n - (j - 1) * chunk
    IN  IF rest <= 0 THEN 0 ELSE IF rest < chunk THEN rest ELSE chunk

FoldSizeLump(n, k, j) ==
    (n \div k) + (IF j = k THEN n % k ELSE 0)

FoldSize(n, k, j) ==
    (n \div k) + (IF j <= n % k THEN 1 ELSE 0)

\* First index of fold j: folds are contiguous, in index order.
FoldStartNoRem(n, k, j) == 1 + (j - 1) * (n \div k)

RECURSIVE FoldStart(_, _, _)
FoldStart(n, k, j) ==
    IF j = 1 THEN 1 ELSE FoldStart(n, k, j - 1) + FoldSize(n, k, j - 1)

\* The held-out group of iteration j.
TestIndices(n, k, j) ==
    FoldStart(n, k, j) .. (FoldStart(n, k, j) + FoldSize(n, k, j) - 1)

\* The k-1 groups used to calculate the reduced space in iteration j.
TrainIndicesAll(n, k, j) ==
    UNION {TestIndices(n, k, i) : i \in 1..k}

TrainIndices(n, k, j) ==
    UNION {TestIndices(n, k, i) : i \in (1..k) \ {j}}

PairSwapped(n, k, j) ==
    [train |-> TestIndices(n, k, j), test |-> TrainIndices(n, k, j)]

Pair(n, k, j) ==
    [train |-> TrainIndices(n, k, j), test |-> TestIndices(n, k, j)]

----------------------------------------------------------------------------
\* The loop over the groups.

\* The reduced space an iteration works with: calculated anew from that
\* iteration's k-1 training groups, whatever was fitted before.
RefitOnce(old, train) == IF old = {} THEN train ELSE old

Refit(old, train) == train

\* Where the loop goes after the fit: on to the prediction, whether or not
\* the training converged (a poor fit shows as a large error value).
AfterFitAbort(c) == IF c THEN "predict" ELSE "failed"

AfterFit(c) == "predict"

\* The loop ends after the k-th group.
LastFoldEarly(f, k) == f >= k - 1

LastFold(f, k) == f = k

----------------------------------------------------------------------------
\* Errors.

\* Norm of a scalar snapshot difference.
norm(x) == Abs(x)

\* Error of one held-out snapshot: the difference between the predicted and
\* the original snapshot, in norm.
SampleErrorSigned(p, s) == p - s

SampleErrorOfPrediction(p, s) == norm(p)

SampleError(p, s) == norm(p - s)

\* Average of the errors of the snapshots of the testing group.
FoldAverageFixedSize(test, err) ==
    Rat(SumOver(test, err), N \div n_splits)

FoldAverage(test, err) == Rat(SumOver(test, err), Cardinality(test))

\* errors.mean()
MeanOverSamples(errs) ==
    LET s == RatSum(errs) IN Rat(s[1], s[2] * N)

Mean(errs) ==
    LET s == RatSum(errs) IN Rat(s[1], s[2] * Len(errs))

----------------------------------------------------------------------------
\* Databases of n samples: snapshot i is (i * s) mod (MaxVal + 1).
Databases(n) ==
    {[i \in 1..n |-> (i * s) % (MaxVal + 1)] : s \in 0..MaxVal}

InitUpTo(maxn) ==
    /\ N \in 2..maxn
    /\ db \in Databases(N)
    /\ n_splits \in 2..N
    /\ rom_fit = {}
    /\ fold = 1
    /\ splits = <<>>
    /\ fitted_on = {}
    /\ predicted = <<>>
    /\ sample_err = <<>>
    /\ errors = <<>>
    /\ mean = <<0, 0>>
    /\ converged = TRUE
    /\ calls = [fit |-> 0, predict |-> 0, aggregate |-> 0]

\* The comparison cell before it runs.
CmpInit ==
    /\ cmp_pc = "header"
    /\ header = <<>>
    /\ red_i = 0
    /\ app_j = 0
    /\ rom = <<>>
    /\ row = [name |-> "", cols |-> <<>>]
    /\ printed = <<>>
    /\ log = <<>>

\* The PINN notebook before it runs; inst: whether pina is installed.
PinnInit(inst) ==
    /\ pinn_pc = "setup"
    /\ colab_import = "unset"
    /\ IN_COLAB = "unset"
    /\ pip_ran = FALSE
    /\ pina_installed = inst
    /\ call_i = 0
    /\ input_pts = <<>>
    /\ train_pts = <<>>

\* db = Database(...); rom = ROM(db, POD(), RBF())
Init == InitUpTo(MaxN) /\ pc = "rom_fit" /\ CmpInit /\ PinnInit(FALSE)

\* rom.fit()
RomFit ==
    /\ pc = "rom_fit"
    /\ rom_fit' = 1..N
    /\ pc' = "split"
    /\ UNCHANGED <<N, db, n_splits, fold, splits, fitted_on, predicted,
                   sample_err, errors, mean, converged, calls>>
    /\ UNCHANGED <<cmp_vars, pinn_vars>>

\* Steps 1 and 6: the next group is left for testing, the remaining k-1
\* groups are the training set.
Split ==
    /\ pc = "split"
    /\ splits' = Append(splits, Pair(N, n_splits, fold))
    /\ pc' = "fit"
    /\ UNCHANGED <<N, db, n_splits, rom_fit, fold, fitted_on, predicted,
                   sample_err, errors, mean, converged, calls>>
    /\ UNCHANGED <<cmp_vars, pinn_vars>>

\* Step 2: the reduced space is calculated from the training groups.  The
\* training of the networks may stop before it has converged (limited
\* number of epochs); the loop goes on to the prediction either way.
Fit ==
    /\ pc = "fit"
    /\ fitted_on' = Refit(fitted_on, splits[fold].train)
    /\ \E c \in BOOLEAN :
          /\ converged' = c
          /\ pc' = AfterFit(c)
    /\ calls' = [calls EXCEPT !.fit = @ + 1]
    /\ UNCHANGED <<N, db, n_splits, rom_fit, fold, splits, predicted,
                   sample_err, errors, mean>>
    /\ UNCHANGED <<cmp_vars, pinn_vars>>

\* Step 3: each snapshot of the testing group is predicted.
Predict ==
    /\ pc = "predict"
    /\ \E p \in [splits[fold].test -> 0..MaxVal] : predicted' = p
    /\ pc' = "aggregate"
    /\ calls' = [calls EXCEPT !.predict = @ + 1]
    /\ UNCHANGED <<N, db, n_splits, rom_fit, fold, splits, fitted_on,
                   sample_err, errors, mean, converged>>
    /\ UNCHANGED <<cmp_vars, pinn_vars>>

\* Steps 4, 5 and 6: per-snapshot errors, their average, next group.
Aggregate ==
    /\ pc = "aggregate"
    /\ LET test == splits[fold].test
           err  == [i \in test |-> SampleError(predicted[i], db[i])]
       IN  /\ sample_err' =
                 [i \in DOMAIN sample_err \cup test |->
                     IF i \in test THEN err[i] ELSE sample_err[i]]
           /\ errors' = Append(errors, FoldAverage(test, err))
    /\ IF LastFold(fold, n_splits)
          THEN pc' = "return" /\ fold' = fold
          ELSE pc' = "split" /\ fold' = fold + 1
    /\ calls' = [calls EXCEPT !.aggregate = @ + 1]
    /\ UNCHANGED <<N, db, n_splits, rom_fit, splits, fitted_on, predicted,
                   mean, converged>>
    /\ UNCHANGED <<cmp_vars, pinn_vars>>

\* Step 7 and the notebook's print: the k errors are averaged to one value.
PrintMean ==
    /\ pc = "return"
    /\ mean' = Mean(errors)
    /\ pc' = "done"
    /\ UNCHANGED <<N, db, n_splits, rom_fit, fold, splits, fitted_on,
                   predicted, sample_err, errors, converged, calls>>
    /\ UNCHANGED <<cmp_vars, pinn_vars>>

Next == RomFit \/ Split \/ Fit \/ Predict \/ Aggregate \/ PrintMean

Spec == Init /\ [][Next]_vars

\* The notebook runs its cells to the end: a step that can be taken is taken.
SpecFair == Spec /\ WF_vars(Next)

----------------------------------------------------------------------------
\* The fold generator run alone, on databases of up to MaxSplitN samples.

InitSplit ==
    InitUpTo(MaxSplitN) /\ pc = "gen" /\ CmpInit /\ PinnInit(FALSE)

Generate ==
    /\ pc = "gen"
    /\ splits' = Append(splits, Pair(N, n_splits, fold))
    /\ IF fold = n_splits
          THEN pc' = "gen_done" /\ fold' = fold
          ELSE pc' = "gen" /\ fold' = fold + 1
    /\ UNCHANGED <<N, db, n_splits, rom_fit, fitted_on, predicted,
                   sample_err, errors, mean, converged, calls>>
    /\ UNCHANGED <<cmp_vars, pinn_vars>>

NextSplit == Generate

SpecSplit == InitSplit /\ [][NextSplit]_vars


----------------------------------------------------------------------------
\* The comparison cell: every reduction with every approximation.

\* The keys of the two dictionaries, in insertion order.
reductions == <<"POD", "AE">>

approximations == <<"RBF", "GPR", "KNeighbors", "RadiusNeighbors", "ANN">>

\* for approxname, approxclass in approximations.items(): ends after the
\* last key.
InnerDoneEarly(j) == j >= Len(approximations) - 1

InnerDone(j) == j = Len(approximations)

\* for redname, redclass in reductions.items(): ends after the last key.
OuterDone(i) == i = Len(reductions)

\* row = '{:10s}'.format(redname)
NewRow(redname) == [name |-> redname, cols |-> <<>>]

\* row += ' {:15e}'.format(...)
AddEntry(r, approxname, e) ==
    [r EXCEPT !.cols = Append(@, [approx |-> approxname, err |-> e])]

Call(op) ==
    [op |-> op, red |-> reductions[red_i], app |-> approximations[app_j]]

\* The value kfold_cv_error(...).mean() may take: a small or a large error.
MeanValues == {0, MaxVal}

\* The database is the one of the cells above; its content plays no part.
InitCmp ==
    /\ InitUpTo(2)
    /\ db = [i \in 1..2 |-> 0]
    /\ pc = "idle"
    /\ CmpInit
    /\ PinnInit(FALSE)

\* header = ...; for name in approximations: header += ...; print(header)
PrintHeader ==
    /\ cmp_pc = "header"
    /\ header' = [j \in 1..Len(approximations) |-> approximations[j]]
    /\ printed' = Append(printed, [name |-> "", cols |-> header'])
    /\ cmp_pc' = "outer"
    /\ UNCHANGED <<red_i, app_j, rom, row, log>>
    /\ UNCHANGED <<cv_vars, pinn_vars>>

\* for redname, redclass in reductions.items(): row = ...
OuterLoop ==
    /\ cmp_pc = "outer"
    /\ IF OuterDone(red_i)
          THEN /\ cmp_pc' = "end"
               /\ UNCHANGED <<red_i, app_j, row>>
          ELSE /\ red_i' = red_i + 1
               /\ row' = NewRow(reductions[red_i'])
               /\ app_j' = 0
               /\ cmp_pc' = "inner"
    /\ UNCHANGED <<header, rom, printed, log>>
    /\ UNCHANGED <<cv_vars, pinn_vars>>

\* for approxname, approxclass in approximations.items():
\*     rom = ROM(db, redclass, approxclass)
InnerLoop ==
    /\ cmp_pc = "inner"
    /\ IF InnerDone(app_j)
          THEN /\ cmp_pc' = "print_row"
               /\ UNCHANGED <<app_j, rom>>
          ELSE /\ app_j' = app_j + 1
               /\ rom' = <<[red |-> reductions[red_i],
                            app |-> approximations[app_j'],
                            fitted |-> FALSE]>>
               /\ cmp_pc' = "fit"
    /\ UNCHANGED <<header, red_i, row, printed, log>>
    /\ UNCHANGED <<cv_vars, pinn_vars>>

\* rom.fit()
LoopFit ==
    /\ cmp_pc = "fit"
    /\ rom' = <<[rom[1] EXCEPT !.fitted = TRUE]>>
    /\ log' = Append(log, Call("fit"))
    /\ cmp_pc' = "cv"
    /\ UNCHANGED <<header, red_i, app_j, row, printed>>
    /\ UNCHANGED <<cv_vars, pinn_vars>>

\* row += ' {:15e}'.format(rom.kfold_cv_error(n_splits=5).mean())
LoopCv ==
    /\ cmp_pc = "cv"
    /\ \E e \in MeanValues : row' = AddEntry(row, approximations[app_j], e)
    /\ log' = Append(log, Call("kfold_cv_error"))
    /\ cmp_pc' = "inner"
    /\ UNCHANGED <<header, red_i, app_j, rom, printed>>
    /\ UNCHANGED <<cv_vars, pinn_vars>>

\* print(row)
PrintRow ==
    /\ cmp_pc = "print_row"
    /\ printed' = Append(printed, row)
    /\ cmp_pc' = "outer"
    /\ UNCHANGED <<header, red_i, app_j, rom, row, log>>
    /\ UNCHANGED <<cv_vars, pinn_vars>>

NextCmp ==
    PrintHeader \/ OuterLoop \/ InnerLoop \/ LoopFit \/ LoopCv \/ PrintRow

SpecCmp == InitCmp /\ [][NextCmp]_vars


----------------------------------------------------------------------------
\* The PINN notebook, its cells run in order.

\* What `import google.colab` may do: succeed, or raise.
ImportOutcomes ==
    {"ok", "ModuleNotFoundError", "ImportError", "OSError",
     "KeyboardInterrupt"}

\* except: (a bare except clause catches whatever the import raises)
CaughtImportErrors(exc) == exc \in {"ModuleNotFoundError", "ImportError"}

Caught(exc) == TRUE

\* conditions = {'x0': ..., 'D': ...}
Conditions == {"x0", "D"}

\* The discretise_domain calls of the notebook, in order: the three
\* examples (four calls) and the sampling for training (two calls).
\* locations defaults to 'all'.
DiscretiseCalls ==
    << [n |-> 20, mode |-> "grid",   locations |-> Conditions],
       [n |-> 20, mode |-> "latin",  locations |-> {"D"}],
       [n |-> 1,  mode |-> "random", locations |-> {"x0"}],
       [n |-> 20, mode |-> "random", locations |-> Conditions],
       [n |-> 1,  mode |-> "random", locations |-> {"x0"}],
       [n |-> 20, mode |-> "lh",     locations |-> {"D"}] >>

\* The outcomes of sampling the locations locs in the given mode: a grid is
\* the same every time, the other modes draw at random.
Draws(mode, locs) ==
    IF mode = "grid" THEN {[l \in locs |-> 1]} ELSE [locs -> 1..MaxDraw]

\* The points of a call: n points per location.
Sampled(call, draw) ==
    [l \in call.locations |->
        [n |-> call.n, mode |-> call.mode, draw |-> draw[l]]]

\* The dict of points of an input_pts value (None has none).
PtsOf(pts) == IF pts = <<>> THEN <<>> ELSE pts[1]

\* The points are saved in a python dict, by location: input_pts after the
\* points new have been sampled.
SavedOnlyNew(pts, new) == <<new>>

SavedAppending(pts, new) ==
    LET old == PtsOf(pts)
    IN  <<[l \in DOMAIN old \cup DOMAIN new |->
              IF l \in DOMAIN new /\ l \in DOMAIN old
                 THEN [new[l] EXCEPT !.n = @ + old[l].n]
                 ELSE IF l \in DOMAIN new THEN new[l] ELSE old[l]]>>

Saved(pts, new) ==
    LET old == PtsOf(pts)
    IN  <<[l \in DOMAIN old \cup DOMAIN new |->
              IF l \in DOMAIN new THEN new[l] ELSE old[l]]>>

\* Both notebooks' other cells have not run.
InitPinn ==
    /\ InitUpTo(2)
    /\ db = [i \in 1..2 |-> 0]
    /\ pc = "idle"
    /\ CmpInit
    /\ \E inst \in BOOLEAN : PinnInit(inst)

\* try: import google.colab; IN_COLAB = True / except: IN_COLAB = False
ImportColab ==
    /\ pinn_pc = "setup"
    /\ \E r \in ImportOutcomes :
          /\ colab_import' = r
          /\ IF r = "ok"
                THEN IN_COLAB' = "True" /\ pinn_pc' = "if_colab"
                ELSE IF Caught(r)
                        THEN IN_COLAB' = "False" /\ pinn_pc' = "if_colab"
                        ELSE IN_COLAB' = IN_COLAB /\ pinn_pc' = "setup_raised"
    /\ UNCHANGED <<pip_ran, pina_installed, call_i, input_pts, train_pts>>
    /\ UNCHANGED <<cv_vars, cmp_vars>>

\* if IN_COLAB: !pip install "pina-mathlab"
\* (the shell command may fail to install; it raises nothing)
InstallIfColab ==
    /\ pinn_pc = "if_colab"
    /\ IF IN_COLAB = "True"
          THEN /\ pip_ran' = TRUE
               /\ \E ok \in BOOLEAN : pina_installed' = (pina_installed \/ ok)
          ELSE UNCHANGED <<pip_ran, pina_installed>>
    /\ pinn_pc' = "problem_def"
    /\ UNCHANGED <<colab_import, IN_COLAB, call_i, input_pts, train_pts>>
    /\ UNCHANGED <<cv_vars, cmp_vars>>

\* from pina.problem import ...; class SimpleODE(SpatialProblem):
\*     input_pts = None
\* problem = SimpleODE()
DefineProblem ==
    /\ pinn_pc = "problem_def"
    /\ IF pina_installed
          THEN input_pts' = <<>> /\ pinn_pc' = "created"
          ELSE input_pts' = input_pts /\ pinn_pc' = "import_raised"
    /\ UNCHANGED <<colab_import, IN_COLAB, pip_ran, pina_installed, call_i,
                   train_pts>>
    /\ UNCHANGED <<cv_vars, cmp_vars>>

\* problem.discretise_domain(n, mode, locations=...)
DiscretiseDomain ==
    /\ pinn_pc \in {"created", "sampling"}
    /\ call_i < Len(DiscretiseCalls)
    /\ LET call == DiscretiseCalls[call_i + 1]
       IN  \E draw \in Draws(call.mode, call.locations) :
               input_pts' = Saved(input_pts, Sampled(call, draw))
    /\ call_i' = call_i + 1
    /\ pinn_pc' = "sampling"
    /\ UNCHANGED <<colab_import, IN_COLAB, pip_ran, pina_installed,
                   train_pts>>
    /\ UNCHANGED <<cv_vars, cmp_vars>>

\* print('Input points:', problem.input_pts)
\* print('Input points labels:', problem.input_pts['D'].labels)
PrintPoints ==
    /\ pinn_pc = "sampling"
    /\ call_i = Len(DiscretiseCalls)
    /\ IF "D" \in DOMAIN PtsOf(input_pts)
          THEN pinn_pc' = "build"
          ELSE pinn_pc' = "print_raised"
    /\ UNCHANGED <<colab_import, IN_COLAB, pip_ran, pina_installed, call_i,
                   input_pts, train_pts>>
    /\ UNCHANGED <<cv_vars, cmp_vars>>

\* pinn = PINN(problem, model); trainer = Trainer(solver=pinn, ...)
BuildTrainer ==
    /\ pinn_pc = "build"
    /\ pinn_pc' = "train"
    /\ UNCHANGED <<colab_import, IN_COLAB, pip_ran, pina_installed, call_i,
                   input_pts, train_pts>>
    /\ UNCHANGED <<cv_vars, cmp_vars>>

\* trainer.train()
Train ==
    /\ pinn_pc = "train"
    /\ train_pts' = <<input_pts>>
    /\ pinn_pc' = "trained"
    /\ UNCHANGED <<colab_import, IN_COLAB, pip_ran, pina_installed, call_i,
                   input_pts>>
    /\ UNCHANGED <<cv_vars, cmp_vars>>

NextPinn ==
    \/ ImportColab
    \/ InstallIfColab
    \/ DefineProblem
    \/ DiscretiseDomain
    \/ PrintPoints
    \/ BuildTrainer
    \/ Train

SpecPinn == InitPinn /\ [][NextPinn]_vars

----------------------------------------------------------------------------
\* Properties.

Finished == pc \in {"gen_done", "return", "done"}

Fitted == pc \in {"predict", "aggregate"}

TestSize(j) == Cardinality(splits[j].test)

\* C1: the folds generated for N samples and fold count k, 1 < k <= N,
\* partition the indices 1..N: while they are generated no index is in two
\* folds, and once all k are generated every index is in exactly one.
C1_FoldsPartition ==
    /\ \A j \in 1..Len(splits) : splits[j].test \subseteq 1..N
    /\ \A idx \in 1..N :
          Cardinality({j \in 1..Len(splits) : idx \in splits[j].test}) <= 1
    /\ Finished =>
          /\ Len(splits) = n_splits
          /\ \A idx \in 1..N :
                Cardinality({j \in 1..Len(splits) : idx \in splits[j].test}) = 1

C1_Witness ==
    /\ pc = "gen_done"
    /\ n_splits < N
    /\ N % n_splits # 0

\* C2: the pipeline that predicts fold i was fitted on exactly the other
\* k-1 folds: it holds no sample of the held-out fold and every sample of
\* every other fold.
C2_TrainedOnOtherFolds ==
    Fitted =>
        /\ splits[fold].test = TestIndices(N, n_splits, fold)
        /\ fitted_on \cap splits[fold].test = {}
        /\ fitted_on \cup splits[fold].test = 1..N
        /\ \A j \in (1..n_splits) \ {fold} :
              TestIndices(N, n_splits, j) \subseteq fitted_on

C2_Witness ==
    /\ pc = "aggregate"
    /\ fold = 2
    /\ n_splits >= 3
    /\ fitted_on # {}

\* C3: the sizes of any two folds differ by at most 1.
C3_FoldSizesBalanced ==
    \A i, j \in 1..Len(splits) :
        /\ TestSize(i) - TestSize(j) <= 1
        /\ TestSize(j) - TestSize(i) <= 1

C3_Witness ==
    /\ pc = "gen_done"
    /\ \E i, j \in 1..Len(splits) : TestSize(i) = TestSize(j) + 1

\* C4: with r = N mod k, the first r folds hold floor(N/k)+1 samples and
\* the others floor(N/k); N=10, k=5 gives sizes 2,2,2,2,2 and N=11, k=5
\* gives 3,2,2,2,2.
C4_RemainderToFirstFolds ==
    /\ \A j \in 1..Len(splits) :
          TestSize(j) =
              IF j - 1 < N % n_splits
                 THEN (N \div n_splits) + 1
                 ELSE N \div n_splits
    /\ (Finished /\ N = 10 /\ n_splits = 5) =>
          [j \in 1..5 |-> TestSize(j)] = <<2, 2, 2, 2, 2>>
    /\ (Finished /\ N = 11 /\ n_splits = 5) =>
          [j \in 1..5 |-> TestSize(j)] = <<3, 2, 2, 2, 2>>

C4_Witness ==
    /\ pc = "gen_done"
    /\ N = 11
    /\ n_splits = 5
    /\ Len(splits) = 5

\* C5: cross-validation with fold count k returns k error values, the j-th
\* being the average error of the samples of fold j, and the reported
\* overall error is the sum of the k values divided by k.
C5_KErrorsAndMean ==
    /\ pc \in {"return", "done"} =>
          /\ Len(errors) = n_splits
          /\ \A j \in 1..n_splits :
                errors[j][1] * TestSize(j) =
                    errors[j][2] * SumOver(splits[j].test, sample_err)
    /\ pc = "done" =>
          /\ mean[2] > 0
          /\ mean[1] * n_splits * RatSum(errors)[2] =
                 mean[2] * RatSum(errors)[1]

C5_Witness ==
    /\ pc = "done"
    /\ n_splits < N
    /\ mean[1] > 0
    /\ \E i, j \in 1..Len(errors) : errors[i] # errors[j]

\* C6: with k = N every iteration holds out exactly one sample and trains
\* on the other N-1, and the error vector has one entry per sample.
C6_LeaveOneOut ==
    n_splits = N =>
        /\ \A j \in 1..Len(splits) :
              /\ Cardinality(splits[j].test) = 1
              /\ Cardinality(splits[j].train) = N - 1
        /\ Fitted => Cardinality(fitted_on) = N - 1
        /\ pc \in {"return", "done"} =>
              /\ Len(errors) = N
              /\ DOMAIN sample_err = 1..N

C6_Witness ==
    /\ n_splits = N
    /\ N >= 3
    /\ pc = "done"

\* C10: every per-sample error and every fold-average error is
\* non-negative.
C10_ErrorsNonNegative ==
    /\ \A i \in DOMAIN sample_err : sample_err[i] >= 0
    /\ \A j \in 1..Len(errors) : errors[j][1] >= 0 /\ errors[j][2] > 0

C10_Witness ==
    \E i \in DOMAIN sample_err \cap DOMAIN predicted :
        /\ predicted[i] < db[i]
        /\ sample_err[i] > 0
        /\ errors # <<>>

\* C11: the error of a held-out sample is exactly zero when its predicted
\* snapshot equals its true snapshot, also when that snapshot equals the
\* snapshot of a training sample.
C11_ZeroErrorOnExactReconstruction ==
    \A i \in DOMAIN sample_err \cap DOMAIN predicted :
        predicted[i] = db[i] => sample_err[i] = 0

C11_Witness ==
    \E i \in DOMAIN sample_err \cap DOMAIN predicted :
        /\ predicted[i] = db[i]
        /\ db[i] > 0
        /\ \E t \in fitted_on : db[t] = db[i]
        /\ sample_err[i] = 0

\* C13: the reduced space used to predict fold i is the one calculated
\* from iteration i's training groups: not the one of an earlier
\* iteration and not the one the notebook's rom got from the full database.
C13_BasisOfSameIteration ==
    Fitted =>
        /\ fitted_on = splits[fold].train
        /\ fitted_on # rom_fit
        /\ \A j \in 1..(fold - 1) : fitted_on # splits[j].train

C13_Witness ==
    /\ pc = "aggregate"
    /\ fold >= 3
    /\ fitted_on = splits[fold].train

C17_AverageWithinFold ==
    \A j \in 1..Len(errors) :
        /\ splits[j].test \subseteq DOMAIN sample_err
        /\ errors[j][2] * SumOver(splits[j].test, sample_err) =
               errors[j][1] * Cardinality(splits[j].test)

C17_Witness ==
    /\ pc \in {"return", "done"}
    /\ N % n_splits # 0
    /\ errors[1][1] > 0
    /\ TestSize(1) > TestSize(n_splits)

\* C18: over a complete run every sample is held out in exactly one
\* iteration, gets its error there, and is in the training set of exactly
\* the other k-1 iterations.
C18_HeldOutOnceTrainedOtherwise ==
    pc \in {"return", "done"} =>
        /\ Len(splits) = n_splits
        /\ DOMAIN sample_err = 1..N
        /\ \A idx \in 1..N :
              /\ Cardinality({j \in 1..n_splits : idx \in splits[j].test}) = 1
              /\ Cardinality({j \in 1..n_splits : idx \in splits[j].train})
                     = n_splits - 1
              /\ \A j \in 1..n_splits :
                    idx \in splits[j].train <=> idx \notin splits[j].test

C18_Witness ==
    /\ pc = "done"
    /\ n_splits >= 3
    /\ n_splits < N

\* C19: the loop ends, for every N and k with 1 < k <= N, after exactly k
\* fits, k predictions and k aggregations, and within an iteration the fit
\* comes before the prediction and the prediction before the aggregation.
C19_TerminatesAfterKIterations ==
    /\ <>(pc = "done")
    /\ [](pc = "done" =>
            calls = [fit |-> n_splits, predict |-> n_splits,
                     aggregate |-> n_splits])
    /\ [](/\ calls.aggregate <= calls.predict
          /\ calls.predict <= calls.fit
          /\ calls.fit <= calls.aggregate + 1)

C19_Witness ==
    /\ pc = "done"
    /\ n_splits >= 3
    /\ calls.fit = n_splits
    /\ calls.aggregate = n_splits

\* C20: for 1 < k <= N every fold holds at least one sample and every
\* iteration's training set holds at least one sample.
C20_NoEmptyFold ==
    \A j \in 1..Len(splits) :
        /\ splits[j].test # {}
        /\ splits[j].train # {}

C20_Witness ==
    /\ pc = "gen_done"
    /\ n_splits = N
    /\ N >= 3
    /\ \A j \in 1..Len(splits) : TestSize(j) = 1

Idx(seq, x) == CHOOSE i \in 1..Len(seq) : seq[i] = x

\* C22: the comparison cell fits and cross-validates every (reduction,
\* approximation) pair exactly once, reductions outermost, each
\* kfold_cv_error right after the fit of the same pair; every printed row
\* has one entry per header column, in the header's approximation order.
C22_EveryPairOnceInOrder ==
    /\ \A p \in 1..Len(log) :
          IF p % 2 = 1
             THEN log[p].op = "fit"
             ELSE /\ log[p].op = "kfold_cv_error"
                  /\ log[p].red = log[p - 1].red
                  /\ log[p].app = log[p - 1].app
    /\ \A p, q \in 1..Len(log) :
          (p < q /\ log[p].op = "fit" /\ log[q].op = "fit") =>
              \/ Idx(reductions, log[p].red) < Idx(reductions, log[q].red)
              \/ /\ log[p].red = log[q].red
                 /\ Idx(approximations, log[p].app)
                        < Idx(approximations, log[q].app)
    /\ \A r \in 2..Len(printed) :
          /\ printed[r].name = reductions[r - 1]
          /\ Len(printed[r].cols) = Len(header)
          /\ \A c \in 1..Len(header) : printed[r].cols[c].approx = header[c]
    /\ cmp_pc = "end" =>
          /\ Len(printed) = 1 + Len(reductions)
          /\ printed[1].cols = approximations
          /\ \A i \in 1..Len(reductions), j \in 1..Len(approximations) :
                \A op \in {"fit", "kfold_cv_error"} :
                    Cardinality({p \in 1..Len(log) :
                        log[p] = [op |-> op, red |-> reductions[i],
                                  app |-> approximations[j]]}) = 1

C22_Witness ==
    /\ cmp_pc = "end"
    /\ Len(printed) = 3
    /\ printed[2].cols # printed[3].cols
    /\ Len(log) = 20

\* The last of the first i discretise_domain calls that sampled location l.
LastCallFor(l, i) ==
    CHOOSE c \in 1..i :
        /\ l \in DiscretiseCalls[c].locations
        /\ \A d \in (c + 1)..i : l \notin DiscretiseCalls[d].locations

\* C24: input_pts is None when the problem is created, training starts
\* only after all discretise_domain calls, and when trainer.train is called
\* input_pts holds sampled points for each condition, 'x0' and 'D'.
C24_TrainAfterAllConditionsSampled ==
    /\ pinn_pc = "created" => input_pts = <<>>
    /\ pinn_pc \in {"build", "train", "trained"} =>
          /\ call_i = Len(DiscretiseCalls)
          /\ DOMAIN PtsOf(input_pts) = Conditions
    /\ train_pts # <<>> =>
          \A c \in Conditions :
              /\ c \in DOMAIN PtsOf(train_pts[1])
              /\ PtsOf(train_pts[1])[c].n > 0

C24_Witness ==
    /\ pinn_pc = "trained"
    /\ train_pts # <<>>
    /\ DOMAIN PtsOf(train_pts[1]) = {"x0", "D"}

\* C25: the last discretise_domain call for a location determines its
\* points; the training starts from 1 random point in 'x0' and 20 latin
\* hypercube points in 'D', whatever the earlier calls sampled.
C25_LastCallDeterminesPoints ==
    /\ \A l \in DOMAIN PtsOf(input_pts) :
          LET call == DiscretiseCalls[LastCallFor(l, call_i)]
          IN  /\ PtsOf(input_pts)[l].n = call.n
              /\ PtsOf(input_pts)[l].mode = call.mode
    /\ train_pts # <<>> =>
          /\ PtsOf(train_pts[1])["x0"].n = 1
          /\ PtsOf(train_pts[1])["x0"].mode = "random"
          /\ PtsOf(train_pts[1])["D"].n = 20
          /\ PtsOf(train_pts[1])["D"].mode = "lh"

C25_Witness ==
    /\ pinn_pc = "trained"
    /\ train_pts # <<>>
    /\ PtsOf(train_pts[1])["x0"].n = 1
    /\ PtsOf(train_pts[1])["D"].draw = MaxDraw

\* C26: pip install runs only when `import google.colab` succeeded; any
\* failure of that import is caught, sets IN_COLAB to False, skips the
\* install and lets the cell go on to the problem definition.
C26_InstallOnlyInColab ==
    /\ pinn_pc # "setup_raised"
    /\ pip_ran => (colab_import = "ok" /\ IN_COLAB = "True")
    /\ colab_import \notin {"unset", "ok"} =>
          (IN_COLAB = "False" /\ ~pip_ran)
    /\ (colab_import = "ok" /\ pinn_pc \notin {"setup", "if_colab"}) =>
          pip_ran

C26_Witness ==
    /\ colab_import = "KeyboardInterrupt"
    /\ IN_COLAB = "False"
    /\ ~pip_ran
    /\ pinn_pc = "problem_def"

====
